---- MODULE Spec2Model ----
(***************************************************************************)
(* Model of dipy/nn/synb0.py: the Synb0 class (construction, weight        *)
(* loading, the normalisation helpers and the predict pipeline).           *)
(*                                                                         *)
(* Arrays are numpy arrays.  An array is a shape and a list of boxes, each *)
(* box an axis-aligned block of one value, a later box overriding an       *)
(* earlier one: the representation is exact for the block-constant volumes *)
(* the model feeds in and is closed under every array operation predict    *)
(* uses (pad, elementwise arithmetic, concatenate, expand_dims, indexing,  *)
(* slice assignment), so the real spatial sizes 77x91x77 and 80x96x80 are  *)
(* kept.  Voxel values are binary floating-point numbers m * 2^e with      *)
(* NaN and the infinities; every arithmetic operation rounds to nearest,   *)
(* ties to even, as IEEE-754 does, at a precision of MantissaBits bits.    *)
(***************************************************************************)
EXTENDS Integers, Sequences, FiniteSets, TLC

(***************************************************************************)
(* Bounds of the model.                                                    *)
(***************************************************************************)
\* precision of the modelled binary floating point (float64 has 53 bits,
\* beyond the integers TLC computes with; rounding acts alike at any width)
MantissaBits == 8
\* largest batch length N of a (N,77,91,77) input
MaxN == 2
\* largest batch_size argument
MaxBatch == 3
\* scalars handed to the normalisation helpers: x in -MaxScalar..MaxScalar
MaxScalar == 3

(***************************************************************************)
(* Integer helpers.                                                        *)
(***************************************************************************)
Abs(n) == IF n < 0 THEN 0 - n ELSE n

Sign(n) == IF n < 0 THEN 0 - 1 ELSE IF n = 0 THEN 0 ELSE 1

MinI(a, b) == IF a < b THEN a ELSE b

MaxI(a, b) == IF a < b THEN b ELSE a

SetMax(S) == CHOOSE x \in S : \A y \in S : y <= x

RECURSIVE Pow2(_)
Pow2(n) == IF n <= 0 THEN 1 ELSE 2 * Pow2(n - 1)

(***************************************************************************)
(* Floating point (the numpy float64 arithmetic of lines 238 and 253).     *)
(* A finite value is m * 2^e, kept canonical (m odd, or m = e = 0), so     *)
(* that equal numbers are equal records.  Signed zeros are not             *)
(* distinguished: every zero the pipeline divides by is a +0.0.            *)
(***************************************************************************)
Fin(m, e) == [k |-> "fin", m |-> m, e |-> e]

NaN == [k |-> "nan", m |-> 0, e |-> 0]

Inf(s) == [k |-> "inf", m |-> s, e |-> 0]

RECURSIVE Canon(_, _)
Canon(m, e) ==
  IF m = 0 THEN Fin(0, 0)
  ELSE IF m % 2 = 0 THEN Canon(m \div 2, e + 1)
  ELSE Fin(m, e)

\* an integer literal or integer-valued voxel, converted exactly
FInt(n) == Canon(n, 0)

RECURSIVE LogUp(_, _, _)
LogUp(a, d, L) == IF 2 * d <= a THEN LogUp(a, 2 * d, L + 1) ELSE L

RECURSIVE LogDown(_, _, _)
LogDown(a, d, L) == IF a < d THEN LogDown(2 * a, d, L - 1) ELSE L

\* the largest L with 2^L <= a/d, for a, d > 0
FloorLog2(a, d) == IF a >= d THEN LogUp(a, d, 0) ELSE LogDown(a, d, 0)

\* the rational n/d (d > 0) rounded to MantissaBits bits, nearest, ties to even
RoundRat(n, d) ==
  IF n = 0 THEN Fin(0, 0)
  ELSE LET a   == Abs(n)
           e   == FloorLog2(a, d) - MantissaBits + 1
           num == IF e >= 0 THEN a ELSE a * Pow2(0 - e)
           den == IF e >= 0 THEN d * Pow2(e) ELSE d
           q0  == num \div den
           r   == num % den
           q   == IF 2 * r > den \/ (2 * r = den /\ q0 % 2 = 1)
                  THEN q0 + 1 ELSE q0
       IN  Canon(Sign(n) * q, e)

\* m * 2^e rounded
RoundDyadic(m, e) ==
  IF e >= 0 THEN RoundRat(m * Pow2(e), 1) ELSE RoundRat(m, Pow2(0 - e))

FNeg(x) == IF x.k = "nan" THEN NaN ELSE [x EXCEPT !.m = 0 - x.m]

FAdd(x, y) ==
  IF x.k = "nan" \/ y.k = "nan" THEN NaN
  ELSE IF x.k = "inf" /\ y.k = "inf" THEN (IF x.m = y.m THEN x ELSE NaN)
  ELSE IF x.k = "inf" THEN x
  ELSE IF y.k = "inf" THEN y
  ELSE LET e0 == MinI(x.e, y.e)
       IN  RoundDyadic(x.m * Pow2(x.e - e0) + y.m * Pow2(y.e - e0), e0)

FSub(x, y) == FAdd(x, FNeg(y))

FMul(x, y) ==
  IF x.k = "nan" \/ y.k = "nan" THEN NaN
  ELSE IF x.k = "inf" \/ y.k = "inf"
       THEN (IF x.m = 0 \/ y.m = 0 THEN NaN ELSE Inf(Sign(x.m) * Sign(y.m)))
  ELSE RoundDyadic(x.m * y.m, x.e + y.e)

\* numpy true division: x/0 is nan for x = 0 and a signed infinity otherwise
\* (a RuntimeWarning, no exception)
FDiv(x, y) ==
  IF x.k = "nan" \/ y.k = "nan" THEN NaN
  ELSE IF x.k = "inf" THEN (IF y.k = "inf" THEN NaN
                            ELSE Inf(x.m * (IF y.m < 0 THEN 0 - 1 ELSE 1)))
  ELSE IF y.k = "inf" THEN Fin(0, 0)
  ELSE IF y.m = 0 THEN (IF x.m = 0 THEN NaN ELSE Inf(Sign(x.m)))
  ELSE LET ed == x.e - y.e
           n  == x.m * Sign(y.m) * (IF ed > 0 THEN Pow2(ed) ELSE 1)
           d  == Abs(y.m) * (IF ed < 0 THEN Pow2(0 - ed) ELSE 1)
       IN  RoundRat(n, d)

\* x < y for finite x, y
FLess(x, y) ==
  LET e0 == MinI(x.e, y.e)
  IN  x.m * Pow2(x.e - e0) < y.m * Pow2(y.e - e0)

FHalf == Fin(1, 0 - 1)

(***************************************************************************)
(* Synb0.__normalize and Synb0.__unnormalize on one element.               *)
(***************************************************************************)
\* (((image - min_img)/(max_img - min_img))-0.5)*2
normalize_elem(image, max_img, min_img) ==
  FMul(FSub(FDiv(FSub(image, min_img), FSub(max_img, min_img)), FHalf), FInt(2))

\* mutant: the offset min_img is not added back
unnormalize_elem_nomin(image, max_img, min_img) ==
  FMul(FDiv(FAdd(image, FInt(1)), FInt(2)), FSub(max_img, min_img))

\* (image+1)/2*(max_img-min_img) + min_img
unnormalize_elem(image, max_img, min_img) ==
  FAdd(FMul(FDiv(FAdd(image, FInt(1)), FInt(2)), FSub(max_img, min_img)), min_img)

(***************************************************************************)
(* numpy arrays.                                                           *)
(***************************************************************************)
Box(lo, hi, val) == [lo |-> lo, hi |-> hi, val |-> val]

\* a name that is not bound to an array yet
Unset == [shape |-> <<>>, boxes |-> <<>>]

Origin(shape) == [k \in 1..Len(shape) |-> 0]

\* np.full(shape, v); np.zeros(shape) is Full(shape, 0.0)
Full(shape, v) == [shape |-> shape, boxes |-> <<Box(Origin(shape), shape, v)>>]

Zeros(shape) == Full(shape, FInt(0))

\* a 0-d array: a scalar
Scalar(v) == Full(<<>>, v)

NDim(A) == Len(A.shape)

RECURSIVE SeqProd(_)
SeqProd(s) == IF s = <<>> THEN 1 ELSE Head(s) * SeqProd(Tail(s))

\* A.size
Size(A) == SeqProd(A.shape)

InBox(b, idx) == \A k \in 1..Len(idx) : b.lo[k] <= idx[k] /\ idx[k] < b.hi[k]

NonEmpty(b) == \A k \in 1..Len(b.lo) : b.lo[k] < b.hi[k]

\* A[idx] for a full index tuple inside A
At(A, idx) ==
  A.boxes[SetMax({i \in 1..Len(A.boxes) : InBox(A.boxes[i], idx)})].val

\* the coordinates on axis k at which the value of A or B may change
Cuts(A, B, k) ==
  {c \in {0} \cup {A.boxes[i].lo[k] : i \in 1..Len(A.boxes)}
             \cup {A.boxes[i].hi[k] : i \in 1..Len(A.boxes)}
             \cup {B.boxes[i].lo[k] : i \in 1..Len(B.boxes)}
             \cup {B.boxes[i].hi[k] : i \in 1..Len(B.boxes)} :
     c < A.shape[k]}

\* one index per block of the grid the cuts of A and B draw on axes k..ndim
RECURSIVE Corners(_, _, _)
Corners(A, B, k) ==
  IF k > NDim(A) THEN {<<>>}
  ELSE {<<c>> \o rest : c \in Cuts(A, B, k), rest \in Corners(A, B, k + 1)}

\* np.array_equal(A, B): same shape, same value at every index (nan # nan
\* in numpy; here NaN = NaN, which compares the stored patterns)
ArrEq(A, B) ==
  /\ A.shape = B.shape
  /\ \A idx \in Corners(A, B, 1) : At(A, idx) = At(B, idx)

\* every element of A is v
AllEq(A, v) == \A idx \in Corners(A, A, 1) : At(A, idx) = v

\* the number of elements in a box
Vol(b) == IF NonEmpty(b) THEN SeqProd([k \in 1..Len(b.lo) |-> b.hi[k] - b.lo[k]]) ELSE 0

\* the part of box b inside box c
Meet(b, c) ==
  Box([k \in 1..Len(b.lo) |-> MaxI(b.lo[k], c.lo[k])],
      [k \in 1..Len(b.lo) |-> MinI(b.hi[k], c.hi[k])], b.val)

\* the number of elements of box b that none of A's boxes j, j+1, ... covers
RECURSIVE Uncovered(_, _, _)
Uncovered(A, b, j) ==
  IF ~NonEmpty(b) THEN 0
  ELSE IF j > Len(A.boxes) THEN Vol(b)
  ELSE Uncovered(A, b, j + 1) - Uncovered(A, Meet(b, A.boxes[j]), j + 1)

\* the number of elements of A that take their value from box i
Shows(A, i) == Uncovered(A, A.boxes[i], i + 1)

\* the values A holds
Values(A) == {A.boxes[i].val : i \in {j \in 1..Len(A.boxes) : Shows(A, j) > 0}}

\* the number of elements <= v (finite values) among those of boxes i, ...
RECURSIVE CountFrom(_, _, _)
CountFrom(A, v, i) ==
  IF i > Len(A.boxes) THEN 0
  ELSE (IF A.boxes[i].val = v \/ FLess(A.boxes[i].val, v) THEN Shows(A, i) ELSE 0)
       + CountFrom(A, v, i + 1)

\* the number of elements of A that are <= v
CountLE(A, v) == CountFrom(A, v, 1)

\* sorted(A.flat)[r], given cnt[v] = the number of elements <= v
Sorted(cnt, r) == CHOOSE v \in DOMAIN cnt :
  /\ cnt[v] > r
  /\ \A w \in DOMAIN cnt : FLess(w, v) => cnt[w] <= r

\* np.percentile(A, q) of a non-empty array of finite values, method
\* 'linear': the element at the virtual index q/100*(n-1) of the sorted
\* values, interpolated between its two neighbours
percentile(A, q) ==
  LET n    == Size(A)
      pos  == q * (n - 1)
      lo   == pos \div 100
      hi   == MinI(lo + 1, n - 1)
      cnt  == [v \in Values(A) |-> CountLE(A, v)]
      a    == Sorted(cnt, lo)
      b    == Sorted(cnt, hi)
  IN  IF a = b THEN a
      ELSE FAdd(a, FMul(FSub(b, a), RoundRat(pos % 100, 100)))

ShiftBox(b, off) ==
  Box([k \in 1..Len(off) |-> b.lo[k] + off[k]],
      [k \in 1..Len(off) |-> b.hi[k] + off[k]], b.val)

\* np.pad(A, margins, 'constant'): margins[k] = <<before, after>>, fill 0
pad(A, margins) ==
  LET newshape == [k \in 1..NDim(A) |-> A.shape[k] + margins[k][1] + margins[k][2]]
      off      == [k \in 1..NDim(A) |-> margins[k][1]]
  IN  [shape |-> newshape,
       boxes |-> <<Box(Origin(newshape), newshape, FInt(0))>>
                 \o [i \in 1..Len(A.boxes) |-> ShiftBox(A.boxes[i], off)]]

\* np.concatenate([A, B], -1) of arrays that agree on every other axis
concatenate_last(A, B) ==
  LET n   == NDim(A)
      off == [k \in 1..n |-> IF k = n THEN A.shape[n] ELSE 0]
  IN  [shape |-> [A.shape EXCEPT ![n] = A.shape[n] + B.shape[n]],
       boxes |-> A.boxes \o [i \in 1..Len(B.boxes) |-> ShiftBox(B.boxes[i], off)]]

\* np.expand_dims(A, 0)
expand_dims0(A) ==
  [shape |-> <<1>> \o A.shape,
   boxes |-> [i \in 1..Len(A.boxes) |->
                Box(<<0>> \o A.boxes[i].lo, <<1>> \o A.boxes[i].hi, A.boxes[i].val)]]

(***************************************************************************)
(* Indexing.  An index is a tuple of items, each an integer or a slice     *)
(* start:stop; None is the empty tuple, an integer n is <<n>>.             *)
(***************************************************************************)
None == <<>>

Some(n) == <<n>>

Idx(n) == [t |-> "int", a |-> Some(n), b |-> None]

Slice(a, b) == [t |-> "slice", a |-> a, b |-> b]

All == Slice(None, None)

\* slice.indices(len): a bound, negative from the end, clipped to 0..len
Clip(bound, len, default) ==
  IF bound = None THEN default
  ELSE IF bound[1] < 0 THEN MaxI(0, bound[1] + len)
  ELSE MinI(bound[1], len)

\* an integer index, negative from the end
Wrap(i, len) == IF i < 0 THEN i + len ELSE i

\* the half-open range of axis length len an item selects
ItemLo(it, len) == IF it.t = "int" THEN Wrap(it.a[1], len) ELSE Clip(it.a, len, 0)

ItemHi(it, len) ==
  IF it.t = "int" THEN Wrap(it.a[1], len) + 1
  ELSE MaxI(ItemLo(it, len), Clip(it.b, len, len))

\* whether A[idx] raises IndexError: too many indices, or an integer out of
\* bounds
IndexError(A, idx) ==
  \/ Len(idx) > NDim(A)
  \/ \E k \in 1..Len(idx) :
       /\ idx[k].t = "int"
       /\ ~(0 - A.shape[k] <= idx[k].a[1] /\ idx[k].a[1] < A.shape[k])

\* the index padded with full slices to one item per axis
FullIndex(A, idx) == idx \o [k \in 1..(NDim(A) - Len(idx)) |-> All]

RECURSIVE KeptAxes(_, _)
KeptAxes(full, k) ==
  IF k > Len(full) THEN <<>>
  ELSE (IF full[k].t = "int" THEN <<>> ELSE <<k>>) \o KeptAxes(full, k + 1)

RECURSIVE SelectBoxes(_, _, _, _)
SelectBoxes(boxes, full, shape, kept) ==
  IF boxes = <<>> THEN <<>>
  ELSE LET b  == Head(boxes)
           lo == [k \in 1..Len(full) |-> MaxI(b.lo[k], ItemLo(full[k], shape[k]))]
           hi == [k \in 1..Len(full) |-> MinI(b.hi[k], ItemHi(full[k], shape[k]))]
           nb == Box([j \in 1..Len(kept) |-> lo[kept[j]] - ItemLo(full[kept[j]], shape[kept[j]])],
                     [j \in 1..Len(kept) |-> hi[kept[j]] - ItemLo(full[kept[j]], shape[kept[j]])],
                     b.val)
       IN  (IF \A k \in 1..Len(full) : lo[k] < hi[k] THEN <<nb>> ELSE <<>>)
           \o SelectBoxes(Tail(boxes), full, shape, kept)

\* A[idx] where it raises no IndexError (basic indexing: a view's content)
getitem(A, idx) ==
  LET full == FullIndex(A, idx)
      kept == KeptAxes(full, 1)
  IN  [shape |-> [j \in 1..Len(kept) |->
                    ItemHi(full[kept[j]], A.shape[kept[j]])
                    - ItemLo(full[kept[j]], A.shape[kept[j]])],
       boxes |-> SelectBoxes(A.boxes, full, A.shape, kept)]

\* the index [..., 0]
EllipsisZero(A) == [k \in 1..NDim(A) |-> IF k = NDim(A) THEN Idx(0) ELSE All]

\* whether a value of shape s broadcasts to a target of shape t in an
\* assignment: aligned from the last axis each length is the target's or 1,
\* and the value's extra leading axes have length 1
Broadcasts(s, t) ==
  \A j \in 1..Len(s) :
    LET k == Len(t) - Len(s) + j
    IN  IF k < 1 THEN s[j] = 1 ELSE s[j] = t[k] \/ s[j] = 1

\* A[lo:hi] = V for a V that broadcasts to A[lo:hi]: the boxes of V,
\* stretched along the axes that broadcast, laid over rows lo..hi-1
setslice0(A, lo, hi, V) ==
  LET t  == [A.shape EXCEPT ![1] = hi - lo]
      n  == Len(t)
      m  == NDim(V)
      Put(b) ==
        Box([k \in 1..n |->
               LET j == k - (n - m)
               IN  (IF k = 1 THEN lo ELSE 0)
                   + (IF j < 1 \/ V.shape[j] # t[k] THEN 0 ELSE b.lo[j])],
            [k \in 1..n |->
               LET j == k - (n - m)
               IN  (IF k = 1 THEN lo ELSE 0)
                   + (IF j < 1 \/ V.shape[j] # t[k] THEN t[k] ELSE b.hi[j])],
            b.val)
  IN  [A EXCEPT !.boxes = A.boxes \o
         SelectSeq([i \in 1..Len(V.boxes) |-> Put(V.boxes[i])], NonEmpty)]

(***************************************************************************)
(* The array forms of the two helpers (numpy broadcasts the scalars).      *)
(***************************************************************************)
\* Synb0.__normalize
normalize(image, max_img, min_img) ==
  [image EXCEPT !.boxes =
     [i \in 1..Len(image.boxes) |->
        [image.boxes[i] EXCEPT !.val = normalize_elem(@, max_img, min_img)]]]

\* Synb0.__unnormalize
unnormalize(image, max_img, min_img) ==
  [image EXCEPT !.boxes =
     [i \in 1..Len(image.boxes) |->
        [image.boxes[i] EXCEPT !.val = unnormalize_elem(@, max_img, min_img)]]]

(***************************************************************************)
(* The shapes and margins predict is written for.                          *)
(***************************************************************************)
\* (77, 91, 77), lines 280-282
VolShape == <<77, 91, 77>>

\* mutant: the margins of the first axis the wrong way round
PadMargins3_swapped == <<<<1, 2>>, <<3, 2>>, <<2, 1>>>>

\* ((2, 1), (3, 2), (2, 1)), lines 288-289
PadMargins3 == <<<<2, 1>>, <<3, 2>>, <<2, 1>>>>

\* ((0, 0), (2, 1), (3, 2), (2, 1)), lines 294-295
PadMargins4 == <<<<0, 0>>, <<2, 1>>, <<3, 2>>, <<2, 1>>>>

\* [0, 2:-1, 3:-2, 2:-1, 0], line 308
CropIndex3 ==
  <<Idx(0), Slice(Some(2), Some(0 - 1)), Slice(Some(3), Some(0 - 2)),
    Slice(Some(2), Some(0 - 1)), Idx(0)>>

\* [:, 2:-1, 3:-2, 2:-1], line 321
CropIndex4 ==
  <<All, Slice(Some(2), Some(0 - 1)), Slice(Some(3), Some(0 - 2)),
    Slice(Some(2), Some(0 - 1))>>

\* the T1 intensity range of lines 291 and 298
T1Max == FInt(150)

\* mutant: any([...]) where line 280 has all([...])
ShapeCheckFails_any(b0shape, T1shape) ==
  \/ SubSeq(b0shape, 2, Len(b0shape)) # VolShape
  \/ b0shape # VolShape
  \/ b0shape # T1shape

\* the condition of lines 280-281 under which predict raises ValueError
ShapeCheckFails(b0shape, T1shape) ==
  \/ /\ SubSeq(b0shape, 2, Len(b0shape)) # VolShape
     /\ b0shape # VolShape
  \/ b0shape # T1shape

(***************************************************************************)
(* The model collaborator behind self.model.  The network's layers run in  *)
(* the tensor runtime; what predict relies on is the forward contract      *)
(* (k,80,96,80,2) -> (k,80,96,80,1).  Three models honour it and differ    *)
(* in what they do with a tensor outside it.                               *)
(***************************************************************************)
ModelKinds == {"chan0", "const", "validating"}

\* the input shape the model is built for, line 84 (None is the batch axis)
InContract(xshape) == Len(xshape) = 5 /\ SubSeq(xshape, 2, 5) = <<80, 96, 80, 2>>

ContractOut(xshape) == <<xshape[1], 80, 96, 80, 1>>

\* self.model.predict(x): raised is the runtime's rejection of the tensor
ModelPredict(kind, x) ==
  IF kind \in {"validating", "UNet3D"}
  THEN (IF InContract(x.shape)
        THEN [raised |-> FALSE, out |-> Zeros(ContractOut(x.shape))]
        ELSE [raised |-> TRUE, out |-> Unset])
  ELSE IF kind = "const"
  THEN [raised |-> FALSE, out |-> Full(ContractOut(x.shape), FHalf)]
  ELSE \* "chan0": the channel-0 slice x[..., 0:1] of its input, unchanged
       [raised |-> FALSE,
        out |-> getitem(x, [k \in 1..NDim(x) |->
                  IF k = NDim(x) THEN Slice(Some(0), Some(1)) ELSE All])]

\* Synb0.__predict: self.model.predict(x_test)[..., 0]
predict_(kind, x_test) ==
  LET r == ModelPredict(kind, x_test)
  IN  IF r.raised THEN r
      ELSE [raised |-> FALSE, out |-> getitem(r.out, EllipsisZero(r.out))]

(***************************************************************************)
(* The arrays callers hand to predict.                                     *)
(***************************************************************************)
ZeroVol == Zeros(VolShape)

\* all zero but for the two opposite corner voxels: its 99th percentile is 0
CornerVol ==
  [shape |-> VolShape,
   boxes |-> <<Box(<<0, 0, 0>>, VolShape, FInt(0)),
               Box(<<0, 0, 0>>, <<1, 1, 1>>, FInt(7)),
               Box(<<76, 90, 76>>, VolShape, FInt(9))>>]

\* a block of 8000 voxels at 100 (over 1% of the padded volume) and a
\* brighter corner: its 99th percentile is 100
BlockVol ==
  [shape |-> VolShape,
   boxes |-> <<Box(<<0, 0, 0>>, VolShape, FInt(0)),
               Box(<<10, 10, 10>>, <<30, 30, 30>>, FInt(100)),
               Box(<<76, 90, 76>>, VolShape, FInt(300))>>]

Volumes == {ZeroVol, CornerVol, BlockVol}

\* np.stack(vols): a batch axis in front
RECURSIVE StackBoxes(_, _)
StackBoxes(vols, i) ==
  IF i > Len(vols) THEN <<>>
  ELSE [j \in 1..Len(vols[i].boxes) |->
          Box(<<i - 1>> \o vols[i].boxes[j].lo, <<i>> \o vols[i].boxes[j].hi,
              vols[i].boxes[j].val)]
       \o StackBoxes(vols, i + 1)

Stack(vols) == [shape |-> <<Len(vols)>> \o VolShape, boxes |-> StackBoxes(vols, 1)]

\* the samples of a batch
BatchVolumes == {ZeroVol, BlockVol}

Batches == {Stack(vols) : vols \in UNION {[1..n -> BatchVolumes] : n \in 0..MaxN}}

\* shapes the check of line 280 must reject
BadShapes == {<<77, 91>>, <<77, 91, 76>>, <<1, 77, 91, 76>>, <<1, 1, 77, 91, 77>>}

B0Inputs == Volumes \cup Batches \cup {Zeros(sh) : sh \in BadShapes}

\* T1 for a given b0: the same array, a blank one of the same shape, or a
\* blank one of another shape
T1Inputs(b) ==
  {b, Zeros(b.shape), BlockVol, Stack(<<BlockVol>>), Zeros(<<77, 91, 76>>)}

BatchSizes == {None} \cup {Some(n) : n \in 1..MaxBatch}

(***************************************************************************)
(* State.                                                                  *)
(***************************************************************************)
VARIABLES
  pc,          \* the statement the running method is at, "idle" between calls
  method,      \* the method the caller invoked last
  outcome,     \* how the last call ended: "returned" or the exception
  result,      \* the value the last call returned
  have_tf,     \* module level, line 14
  log_level,   \* the level of the 'synb0' logger, lines 23 and 35
  self_model,  \* self.model
  verbose,     \* __init__'s argument
  UNet3D,      \* __init__'s local name UNet3D: "unbound" or "class"
  arg_b0,      \* the caller's b0 (np.pad returns a new array)
  arg_T1,      \* the caller's T1
  b0,          \* predict's b0
  T1,          \* predict's T1
  batch_size,  \* predict's batch_size
  shape,       \* predict's shape
  p99,         \* predict's p99
  input_data,  \* predict's input_data
  prediction,  \* predict's prediction
  batch_idx,   \* the value the for statement of line 315 takes next
  forward,     \* the model invocations of the call: the tensor's shape and
               \* the rows of prediction its output is assigned to
  written,     \* the row ranges of prediction assigned so far
  warned,      \* logger.warning was called (line 303)
  image,       \* the helpers' image
  max_img,     \* the helpers' max_img
  min_img,     \* the helpers' min_img
  x_arg        \* the scalar the caller normalised

env == <<have_tf, log_level, self_model>>

initlocals == <<verbose, UNet3D>>

plocals == <<arg_b0, arg_T1, b0, T1, batch_size, shape, p99, input_data, prediction,
             batch_idx, forward, written, warned>>

hlocals == <<image, max_img, min_img, x_arg>>

vars == <<pc, method, outcome, result, env, initlocals, plocals, hlocals>>

Init ==
  /\ pc = "idle"
  /\ method = ""
  /\ outcome = ""
  /\ result = Unset
  /\ have_tf \in BOOLEAN
  /\ log_level = "NOTSET"
  /\ self_model \in ModelKinds
  /\ verbose = FALSE
  /\ UNet3D = "unbound"
  /\ arg_b0 = Unset
  /\ arg_T1 = Unset
  /\ b0 = Unset
  /\ T1 = Unset
  /\ batch_size = None
  /\ shape = <<>>
  /\ p99 = Unset
  /\ input_data = Unset
  /\ prediction = Unset
  /\ batch_idx = 0
  /\ forward = <<>>
  /\ written = <<>>
  /\ warned = FALSE
  /\ image = Unset
  /\ max_img = FInt(0)
  /\ min_img = FInt(0)
  /\ x_arg = FInt(0)

\* a call ends: by a return statement or by an exception
Ends(how, value) ==
  /\ pc' = "done"
  /\ outcome' = how
  /\ result' = value
  /\ UNCHANGED method

Goes(label) ==
  /\ pc' = label
  /\ UNCHANGED <<method, outcome, result>>

Enters(name, label) ==
  /\ pc' = label
  /\ method' = name
  /\ outcome' = ""
  /\ result' = Unset

(***************************************************************************)
(* Synb0.__init__, lines 44-181.                                           *)
(***************************************************************************)
CallInit ==
  /\ pc = "idle"
  /\ Enters("__init__", "L75")
  /\ verbose' \in BOOLEAN
  /\ UNet3D' = "unbound"
  /\ UNCHANGED <<env, plocals, hlocals>>

\* lines 75-76: raise tf(), the optional package's tripwire
InitRequireTf ==
  /\ pc = "L75"
  /\ IF have_tf THEN Goes("L78") ELSE Ends("TripWireError", Unset)
  /\ UNCHANGED <<env, initlocals, plocals, hlocals>>

\* lines 78-79, set_logger_level (lines 26-35)
InitLogLevel ==
  /\ pc = "L78"
  /\ log_level' = IF verbose THEN "INFO" ELSE "CRITICAL"
  /\ Goes("L83")
  /\ UNCHANGED <<have_tf, self_model, initlocals, plocals, hlocals>>

\* lines 83-181: self.model = UNet3D(), self.model.build(...), then the
\* class statement that binds the local name UNet3D.  The name is local to
\* __init__ because line 85 assigns it, and line 83 reads it first.
InitModel ==
  /\ pc = "L83"
  /\ IF UNet3D = "unbound"
     THEN /\ Ends("UnboundLocalError", Unset)
          /\ UNCHANGED <<self_model, UNet3D>>
     ELSE /\ self_model' = "UNet3D"
          /\ UNet3D' = "class"
          /\ Ends("returned", Unset)
  /\ UNCHANGED <<have_tf, log_level, verbose, plocals, hlocals>>

(***************************************************************************)
(* Synb0.load_model_weights, lines 194-206: the weights file fits the      *)
(* model or load_weights raises ValueError, which is raised again.         *)
(***************************************************************************)
LoadModelWeights ==
  /\ pc = "idle"
  /\ method' = "load_model_weights"
  /\ pc' = "done"
  /\ result' = Unset
  /\ \E fits \in BOOLEAN :
       outcome' = IF fits THEN "returned" ELSE "ValueError:weights"
  /\ UNCHANGED <<env, initlocals, plocals, hlocals>>

(***************************************************************************)
(* Synb0.predict, lines 256-323.                                           *)
(***************************************************************************)
CallPredict ==
  /\ pc = "idle"
  /\ Enters("predict", "L280")
  /\ \E b \in B0Inputs : \E t \in T1Inputs(b) :
       /\ arg_b0' = b
       /\ b0' = b
       /\ arg_T1' = t
       /\ T1' = t
  /\ batch_size' \in BatchSizes
  /\ shape' = <<>>
  /\ p99' = Unset
  /\ input_data' = Unset
  /\ prediction' = Unset
  /\ batch_idx' = 0
  /\ forward' = <<>>
  /\ written' = <<>>
  /\ warned' = FALSE
  /\ UNCHANGED <<env, initlocals, hlocals>>

\* lines 280-285
ShapeCheck ==
  /\ pc = "L280"
  /\ IF ShapeCheckFails(b0.shape, T1.shape)
     THEN Ends("ValueError:shape", Unset) /\ UNCHANGED shape
     ELSE Goes("L287") /\ shape' = b0.shape
  /\ UNCHANGED <<env, initlocals, hlocals, arg_b0, arg_T1, b0, T1, batch_size, p99,
                 input_data, prediction, batch_idx, forward, written, warned>>

\* lines 288-289 and 294-295
PadInputs ==
  /\ pc = "L287"
  /\ T1' = pad(T1, IF Len(shape) = 3 THEN PadMargins3 ELSE PadMargins4)
  /\ b0' = pad(b0, IF Len(shape) = 3 THEN PadMargins3 ELSE PadMargins4)
  /\ Goes("L290")
  /\ UNCHANGED <<env, initlocals, hlocals, arg_b0, arg_T1, batch_size, shape, p99,
                 input_data, prediction, batch_idx, forward, written, warned>>

\* np.percentile(A, 99, axis=(1, 2, 3)): one percentile per sample
percentile_rows(A) ==
  [shape |-> <<A.shape[1]>>,
   boxes |-> [i \in 1..A.shape[1] |->
                Box(<<i - 1>>, <<i>>, percentile(getitem(A, <<Idx(i - 1)>>), 99))]]

\* lines 290 and 296
Percentile ==
  /\ pc = "L290"
  /\ p99' = IF Len(shape) = 3 THEN Scalar(percentile(b0, 99))
            ELSE percentile_rows(b0)
  /\ Goes("L291")
  /\ UNCHANGED <<env, initlocals, hlocals, arg_b0, arg_T1, b0, T1, batch_size, shape,
                 input_data, prediction, batch_idx, forward, written, warned>>

\* for i in range(shape[0]): A[i] = self.__normalize(A[i], maxes[i], 0),
\* from row i on (the arrays are float arrays: the assignment keeps the
\* values)
RECURSIVE normalize_rows(_, _, _)
normalize_rows(A, maxes, i) ==
  IF i >= A.shape[1] THEN A
  ELSE normalize_rows(
         setslice0(A, i, i + 1,
           expand_dims0(normalize(getitem(A, <<Idx(i)>>), At(maxes, <<i>>), FInt(0)))),
         maxes, i + 1)

\* for i in range(shape[0]): A[i] = self.__unnormalize(A[i], maxes[i], 0)
RECURSIVE unnormalize_rows(_, _, _)
unnormalize_rows(A, maxes, i) ==
  IF i >= A.shape[1] THEN A
  ELSE unnormalize_rows(
         setslice0(A, i, i + 1,
           expand_dims0(unnormalize(getitem(A, <<Idx(i)>>), At(maxes, <<i>>), FInt(0)))),
         maxes, i + 1)

\* lines 291-292 and 297-299
NormalizeInputs ==
  /\ pc = "L291"
  /\ IF Len(shape) = 3
     THEN /\ T1' = normalize(T1, T1Max, FInt(0))
          /\ b0' = normalize(b0, At(p99, <<>>), FInt(0))
     ELSE /\ T1' = normalize_rows(T1, Full(<<shape[1]>>, T1Max), 0)
          /\ b0' = normalize_rows(b0, p99, 0)
  /\ Goes("L301")
  /\ UNCHANGED <<env, initlocals, hlocals, arg_b0, arg_T1, batch_size, shape, p99,
                 input_data, prediction, batch_idx, forward, written, warned>>

\* mutant: a given batch_size makes the single sample go through the model
\* once more
PredictSingle_again ==
  /\ pc = "L301"
  /\ Len(shape) = 3
  /\ warned' = (batch_size # None /\ log_level # "CRITICAL")
  /\ input_data' = expand_dims0(concatenate_last(b0, T1))
  /\ forward' = forward \o
       [j \in 1..(IF batch_size = None THEN 1 ELSE 2) |->
          [x |-> input_data'.shape, lo |-> 0, hi |-> 1]]
  /\ LET r == predict_(self_model, input_data')
     IN  IF r.raised
         THEN Ends("PredictionError", Unset) /\ UNCHANGED prediction
         ELSE Goes("L307") /\ prediction' = r.out
  /\ UNCHANGED <<env, initlocals, hlocals, arg_b0, arg_T1, b0, T1, batch_size,
                 shape, p99, batch_idx, written>>

\* lines 301-306: the input had no batch axis.  The warning reaches the
\* handlers unless the logger's level is above WARNING.
PredictSingle ==
  /\ pc = "L301"
  /\ Len(shape) = 3
  /\ warned' = (batch_size # None /\ log_level # "CRITICAL")
  /\ input_data' = expand_dims0(concatenate_last(b0, T1))
  /\ forward' = Append(forward, [x |-> input_data'.shape, lo |-> 0, hi |-> 1])
  /\ LET r == predict_(self_model, input_data')
     IN  IF r.raised
         THEN Ends("PredictionError", Unset) /\ UNCHANGED prediction
         ELSE Goes("L307") /\ prediction' = r.out
  /\ UNCHANGED <<env, initlocals, hlocals, arg_b0, arg_T1, b0, T1, batch_size, shape,
                 p99, batch_idx, written>>

\* line 307
UnnormalizeSingle ==
  /\ pc = "L307"
  /\ prediction' = unnormalize(prediction, At(p99, <<>>), FInt(0))
  /\ Goes("L308")
  /\ UNCHANGED <<env, initlocals, hlocals, arg_b0, arg_T1, b0, T1, batch_size, shape,
                 p99, input_data, batch_idx, forward, written, warned>>

\* line 308
CropSingle ==
  /\ pc = "L308"
  /\ IF IndexError(prediction, CropIndex3)
     THEN Ends("IndexError", Unset) /\ UNCHANGED prediction
     ELSE Goes("L323") /\ prediction' = getitem(prediction, CropIndex3)
  /\ UNCHANGED <<env, initlocals, hlocals, arg_b0, arg_T1, b0, T1, batch_size, shape,
                 p99, input_data, batch_idx, forward, written, warned>>

\* lines 311-314, and the for statement of line 315 set up
BatchInit ==
  /\ pc = "L301"
  /\ Len(shape) # 3
  /\ batch_size' = IF batch_size = None THEN Some(1) ELSE batch_size
  /\ input_data' = concatenate_last(b0, T1)
  /\ prediction' = Zeros(shape \o <<1>>)
  /\ batch_idx' = batch_size'[1]
  /\ Goes("L315")
  /\ UNCHANGED <<env, initlocals, hlocals, arg_b0, arg_T1, b0, T1, shape, p99, forward,
                 written, warned>>

\* prediction[lo:hi] = self.__predict(input_data), then the statement at
\* label next: the forward pass, then the assignment, which raises
\* ValueError when the value does not broadcast to the slice
AssignPass(lo, hi, next) ==
  /\ forward' = Append(forward, [x |-> input_data.shape, lo |-> lo, hi |-> hi])
  /\ LET r == predict_(self_model, input_data)
     IN  IF r.raised
         THEN Ends("PredictionError", Unset) /\ UNCHANGED <<prediction, written>>
         ELSE IF ~Broadcasts(r.out.shape, [prediction.shape EXCEPT ![1] = hi - lo])
         THEN Ends("ValueError:broadcast", Unset) /\ UNCHANGED <<prediction, written>>
         ELSE /\ prediction' = setslice0(prediction, lo, hi, r.out)
              /\ written' = Append(written, <<lo, hi>>)
              /\ Goes(next)

\* lines 315-316: for batch_idx in range(batch_size, shape[0]+1, batch_size)
BatchLoop ==
  /\ pc = "L315"
  /\ IF batch_idx < shape[1] + 1
     THEN /\ AssignPass(0, Clip(Some(batch_idx), shape[1], shape[1]), "L315")
          /\ batch_idx' = batch_idx + batch_size[1]
     ELSE /\ Goes("L317")
          /\ UNCHANGED <<prediction, batch_idx, forward, written>>
  /\ UNCHANGED <<env, initlocals, hlocals, arg_b0, arg_T1, b0, T1, batch_size, shape,
                 p99, input_data, warned>>

\* lines 317-318
BatchRemainder ==
  /\ pc = "L317"
  /\ IF shape[1] % batch_size[1] # 0
     THEN AssignPass(Clip(Some(0 - (shape[1] % batch_size[1])), shape[1], 0),
                     shape[1], "L319")
     ELSE Goes("L319") /\ UNCHANGED <<prediction, forward, written>>
  /\ UNCHANGED <<env, initlocals, hlocals, arg_b0, arg_T1, b0, T1, batch_size, shape,
                 p99, input_data, batch_idx, warned>>

\* lines 319-320
UnnormalizeBatch ==
  /\ pc = "L319"
  /\ prediction' = unnormalize_rows(prediction, p99, 0)
  /\ Goes("L321")
  /\ UNCHANGED <<env, initlocals, hlocals, arg_b0, arg_T1, b0, T1, batch_size, shape,
                 p99, input_data, batch_idx, forward, written, warned>>

\* line 321
CropBatch ==
  /\ pc = "L321"
  /\ IF IndexError(prediction, CropIndex4)
     THEN Ends("IndexError", Unset) /\ UNCHANGED prediction
     ELSE Goes("L323") /\ prediction' = getitem(prediction, CropIndex4)
  /\ UNCHANGED <<env, initlocals, hlocals, arg_b0, arg_T1, b0, T1, batch_size, shape,
                 p99, input_data, batch_idx, forward, written, warned>>

\* line 323
Return ==
  /\ pc = "L323"
  /\ Ends("returned", prediction)
  /\ UNCHANGED <<env, initlocals, plocals, hlocals>>

(***************************************************************************)
(* The helpers called on a scalar: a caller normalises x with a range and  *)
(* hands the result back to __unnormalize with the same range.             *)
(***************************************************************************)
Scalars == (0 - MaxScalar)..MaxScalar

CallNormalize ==
  /\ pc = "idle"
  /\ Enters("__normalize", "L238")
  /\ \E x \in Scalars, mx \in Scalars, mn \in Scalars :
       /\ mx >= mn
       /\ x_arg' = FInt(x)
       /\ image' = Scalar(FInt(x))
       /\ max_img' = FInt(mx)
       /\ min_img' = FInt(mn)
  /\ UNCHANGED <<env, initlocals, plocals>>

\* line 238
Normalize ==
  /\ pc = "L238"
  /\ pc' = "normalized"
  /\ outcome' = "returned"
  /\ result' = normalize(image, max_img, min_img)
  /\ UNCHANGED <<method, env, initlocals, plocals, hlocals>>

CallUnnormalize ==
  /\ pc = "normalized"
  /\ Enters("__unnormalize", "L253")
  /\ image' = result
  /\ UNCHANGED <<env, initlocals, plocals, max_img, min_img, x_arg>>

\* line 253
Unnormalize ==
  /\ pc = "L253"
  /\ Ends("returned", unnormalize(image, max_img, min_img))
  /\ UNCHANGED <<env, initlocals, plocals, hlocals>>

(***************************************************************************)
(* The caller takes the call's result or exception; the locals are gone.   *)
(***************************************************************************)
Finish ==
  /\ pc = "done"
  /\ pc' = "idle"
  /\ method' = ""
  /\ outcome' = ""
  /\ result' = Unset
  /\ verbose' = FALSE
  /\ UNet3D' = "unbound"
  /\ arg_b0' = Unset
  /\ arg_T1' = Unset
  /\ b0' = Unset
  /\ T1' = Unset
  /\ batch_size' = None
  /\ shape' = <<>>
  /\ p99' = Unset
  /\ input_data' = Unset
  /\ prediction' = Unset
  /\ batch_idx' = 0
  /\ forward' = <<>>
  /\ written' = <<>>
  /\ warned' = FALSE
  /\ image' = Unset
  /\ max_img' = FInt(0)
  /\ min_img' = FInt(0)
  /\ x_arg' = FInt(0)
  /\ UNCHANGED env

(***************************************************************************)
(* The claims.                                                             *)
(***************************************************************************)
\* the shapes predict documents for b0 and T1 (lines 263-267)
ValidInputs(b0shape, T1shape) ==
  /\ b0shape = T1shape
  /\ \/ b0shape = VolShape
     \/ Len(b0shape) = 4 /\ SubSeq(b0shape, 2, 4) = VolShape

\* a predict call that passed the shape check has ended, the model having
\* answered every forward pass
PredictEnded ==
  /\ method = "predict"
  /\ pc = "done"
  /\ ~(outcome \in {"ValueError:shape", "PredictionError"})

\* the batch length N of the caller's input
BatchLen == arg_b0.shape[1]

\* C1: a predict call on (77,91,77) inputs, or on (N,77,91,77) inputs with
\* N >= 1, returns an array of the shape of the caller's input.
C1_ReturnsInputShape ==
  (PredictEnded /\ (Len(arg_b0.shape) = 3 \/ BatchLen >= 1))
    => (outcome = "returned" /\ result.shape = arg_b0.shape)

\* the number of assignments to prediction that wrote row i
TimesWritten(i) ==
  Cardinality({j \in 1..Len(written) : written[j][1] <= i /\ i < written[j][2]})

\* C2: when a batched predict call has ended, every sample index in [0,N)
\* was written by exactly one forward pass: the written ranges partition
\* [0,N).
C2_RangesPartition ==
  (PredictEnded /\ Len(arg_b0.shape) = 4)
    => \A i \in 0..(BatchLen - 1) : TimesWritten(i) = 1

\* C3: predict raises the shape error exactly when the shapes of b0 and T1
\* differ or are neither (77,91,77) nor (N,77,91,77), and a call that
\* raises it has padded nothing, normalised nothing and never invoked the
\* model.
C3_ShapeErrorIffInvalid ==
  method = "predict" =>
    /\ pc # "L280" =>
         ((pc = "done" /\ outcome = "ValueError:shape")
            <=> ~ValidInputs(arg_b0.shape, arg_T1.shape))
    /\ ~ValidInputs(arg_b0.shape, arg_T1.shape) =>
         /\ forward = <<>>
         /\ b0 = arg_b0
         /\ T1 = arg_T1
         /\ p99 = Unset
         /\ input_data = Unset

\* C3, witness: two shapes, each valid alone, that differ: the call ended
\* with the shape error.
C3_Witness ==
  /\ method = "predict"
  /\ pc = "done"
  /\ outcome = "ValueError:shape"
  /\ arg_b0.shape = VolShape
  /\ arg_T1.shape = <<1>> \o VolShape

\* C4: a predict call on inputs without a batch axis invokes the model
\* exactly once by the time it ends and never before line 306, whatever
\* batch_size is; batch_size itself stays as given and no warning is logged
\* unless one was given.
C4_SinglePassOnce ==
  (method = "predict" /\ ValidInputs(arg_b0.shape, arg_T1.shape)
     /\ Len(arg_b0.shape) = 3)
    => /\ pc \in {"L280", "L287", "L290", "L291", "L301"} => Len(forward) = 0
       /\ pc \in {"L307", "L308", "L323", "done"} => Len(forward) = 1
       /\ written = <<>>
       /\ warned => batch_size # None

\* C4, witness: a call without batch axis, with batch_size = 2, has ended.
C4_Witness ==
  /\ method = "predict"
  /\ pc = "done"
  /\ arg_b0.shape = VolShape
  /\ arg_T1.shape = VolShape
  /\ batch_size = Some(2)
  /\ Len(forward) = 1

\* C5: with TensorFlow available, __init__ returns and leaves self.model
\* bound to the network built for (None, 80, 96, 80, 2).
C5_ConstructorSucceeds ==
  (method = "__init__" /\ pc = "done" /\ have_tf)
    => (outcome = "returned" /\ self_model = "UNet3D")

\* np.expand_dims(A, -1)
expand_dims_last(A) ==
  [shape |-> A.shape \o <<1>>,
   boxes |-> [i \in 1..Len(A.boxes) |->
                Box(A.boxes[i].lo \o <<0>>, A.boxes[i].hi \o <<1>>, A.boxes[i].val)]]

\* a padded volume as the one-sample, one-channel tensor that the crop of
\* line 308 indexes
AsOutputTensor(A) == expand_dims0(expand_dims_last(A))

\* C6: right after predict has padded its inputs, cropping the padded b0
\* and T1 with the index predict crops its output with (line 308 without
\* batch axis, line 321 with one) gives back the caller's b0 and T1 exactly.
C6_CropInvertsPad ==
  (method = "predict" /\ pc = "L290") =>
    IF Len(shape) = 3
    THEN /\ ~IndexError(AsOutputTensor(b0), CropIndex3)
         /\ ArrEq(getitem(AsOutputTensor(b0), CropIndex3), arg_b0)
         /\ ArrEq(getitem(AsOutputTensor(T1), CropIndex3), arg_T1)
    ELSE /\ ~IndexError(b0, CropIndex4)
         /\ ArrEq(getitem(b0, CropIndex4), arg_b0)
         /\ ArrEq(getitem(T1, CropIndex4), arg_T1)

\* C6, witness: the padded volume is the one with both corner voxels set,
\* which any wrong margin or offset would lose or displace.
C6_Witness ==
  /\ method = "predict"
  /\ pc = "L290"
  /\ arg_b0 = CornerVol
  /\ b0.shape = <<80, 96, 80>>

\* the value of a 0-d array
ScalarOf(A) == At(A, <<>>)

\* the round trip of the caller's scalar has ended, for a range max > min
RoundTripEnded ==
  /\ method = "__unnormalize"
  /\ pc = "done"
  /\ FLess(min_img, max_img)

\* C7 as stated: __unnormalize(__normalize(x, max, min), max, min) == x.
C7_ExactRoundTrip == RoundTripEnded => ScalarOf(result) = x_arg

\* |x - y| * 2^MantissaBits <= tol * n, for finite x, y and an integer n
Within(x, y, tol, n) ==
  LET e0 == MinI(x.e, y.e)
      d  == Abs(x.m * Pow2(x.e - e0) - y.m * Pow2(y.e - e0))
      e  == e0 + MantissaBits
  IN  IF e >= 0 THEN d * Pow2(e) <= tol * n ELSE d <= tol * n * Pow2(0 - e)

\* the integer an integer-valued float holds
IntOf(x) == x.m * Pow2(x.e)

\* C7, amended: the round trip gives x back up to rounding, within
\* 16 * 2^-p * max(|x|, |max|, |min|) for a mantissa of p bits; and
\* __normalize maps min to -1 and max to 1 and does not clamp.
C7_RoundTripWithinTolerance ==
  /\ RoundTripEnded =>
       /\ ScalarOf(result).k = "fin"
       /\ Within(ScalarOf(result), x_arg, 16,
                 MaxI(Abs(IntOf(x_arg)), MaxI(Abs(IntOf(max_img)), Abs(IntOf(min_img)))))
  /\ (method = "__normalize" /\ pc = "normalized" /\ FLess(min_img, max_img)) =>
       /\ x_arg = min_img => ScalarOf(result) = FInt(0 - 1)
       /\ x_arg = max_img => ScalarOf(result) = FInt(1)
       /\ FLess(max_img, x_arg) => FLess(FInt(1), ScalarOf(result))
       /\ FLess(x_arg, min_img) => FLess(ScalarOf(result), FInt(0 - 1))

\* C7, witness: a round trip has ended whose result is not exactly x.
C7_Witness == RoundTripEnded /\ ScalarOf(result) # x_arg

\* C8: with the stub model that returns the channel-0 slice of its input,
\* predict on zero-filled b0 and T1 of shape (77,91,77) returns a
\* zero-filled array of shape (77,91,77).
C8_ZeroInZeroOut ==
  (method = "predict" /\ pc = "done" /\ self_model = "chan0"
     /\ arg_b0 = ZeroVol /\ arg_T1 = ZeroVol)
    => /\ outcome = "returned"
       /\ result.shape = VolShape
       /\ AllEq(result, FInt(0))

\* C9: in a batched predict call every forward pass receives the samples of
\* one chunk, at most batch_size of them and as many as the rows its output
\* is assigned to, and a call that has ended ran ceil(N/B) passes.
C9_ChunkPerPass ==
  (method = "predict" /\ Len(arg_b0.shape) = 4 /\ pc \in {"L315", "L317", "L319", "L321", "L323", "done"})
    => /\ \A j \in 1..Len(forward) :
            /\ forward[j].x[1] = forward[j].hi - forward[j].lo
            /\ forward[j].x[1] <= batch_size[1]
       /\ PredictEnded =>
            Len(forward) = (BatchLen + batch_size[1] - 1) \div batch_size[1]

\* C10: every tensor predict passes to the model has shape (k,80,96,80,2),
\* with k = 1 when the caller's input had no batch axis.
C10_TensorShape ==
  method = "predict" =>
    \A j \in 1..Len(forward) :
      /\ Len(forward[j].x) = 5
      /\ SubSeq(forward[j].x, 2, 5) = <<80, 96, 80, 2>>
      /\ Len(arg_b0.shape) = 3 => forward[j].x[1] = 1

Next ==
  \/ CallInit
  \/ InitRequireTf
  \/ InitLogLevel
  \/ InitModel
  \/ LoadModelWeights
  \/ CallPredict
  \/ ShapeCheck
  \/ PadInputs
  \/ Percentile
  \/ NormalizeInputs
  \/ PredictSingle
  \/ UnnormalizeSingle
  \/ CropSingle
  \/ BatchInit
  \/ BatchLoop
  \/ BatchRemainder
  \/ UnnormalizeBatch
  \/ CropBatch
  \/ Return
  \/ CallNormalize
  \/ Normalize
  \/ CallUnnormalize
  \/ Unnormalize
  \/ Finish

Spec == Init /\ [][Next]_vars
====
